---- MODULE Spec2Model ----
(***************************************************************************)
(* A model of the flight-delay toolkit: the timestamp reconciliation of   *)
(* FlightPreprocessor (src/modules/flight_preprocessor.py), followed by    *)
(* AirportAnalyzer, SmoothedTargetEncoder and FlightFeatureEngineer, each  *)
(* with its own variables and specification.                               *)
(*                                                                         *)
(* A table (pandas DataFrame) is a sequence of rows.  A nullable value     *)
(* (None / NaN / NaT / pd.NA) is the empty sequence <<>>, a present value  *)
(* v is <<v>>.  A timestamp is a number of minutes since 1970-01-01T00:00, *)
(* a date a number of days since 1970-01-01.  A Python string is a         *)
(* sequence of one-character strings.                                      *)
(***************************************************************************)
EXTENDS Integers, Sequences, FiniteSets, TLC

VARIABLES
    base_date,    \* self.base_date: the anchor date, a civil [y, m, d]
    columns,      \* the columns of the input table
    rows,         \* the input table: one record of raw values per row
    hhmmstr,      \* the helper columns <col>_hhmmstr (step 1)
    date_series,  \* the per-row date of _make_date_series (step 2)
    df,           \* the four datetime columns of the working table
    derived,      \* dep_delay_min, arr_delay_min, is_delayed
    calendar,     \* year, month, day, day_of_week of the output
    date_summary, \* self.date_summary
    pc,           \* the position of preprocess
    \* an AirportAnalyzer (src/modules/airport_analyzer.py)
    df_flights,        \* self.df_flights
    df_airports,       \* self.df_airports
    df_metrics,        \* self.df_metrics, None until computed
    df_routes,         \* self.df_routes, None until computed
    df_route_metrics,  \* self.df_route_metrics, no attribute until computed
    plotted,           \* what the last call drew, if it was a plot
    returned,          \* what the last call returned or raised
    \* a SmoothedTargetEncoder (src/modules/smoothed_target_encoder.py)
    m_smoothing,       \* self.m
    n_splits,          \* self.n_splits
    train,             \* the table handed to fit_transform
    folds,             \* the validation fold of each row in kf.split(df)
    global_mean_,      \* self.global_mean_
    category_mapping_, \* self.category_mapping_
    encoded_feature,   \* the series fit_transform returns
    \* FlightFeatureEngineer.transform (src/modules/feature_engineer.py)
    schedule,          \* the table handed to transform
    features           \* the table transform returns

preprocessor_vars ==
    <<base_date, columns, rows, hhmmstr, date_series, df, derived, calendar,
      date_summary, pc>>

analyzer_vars ==
    <<df_flights, df_airports, df_metrics, df_routes, df_route_metrics,
      plotted, returned>>

encoder_vars ==
    <<m_smoothing, n_splits, train, folds, global_mean_, category_mapping_,
      encoded_feature>>

engineer_vars == <<schedule, features>>

vars == <<preprocessor_vars, analyzer_vars, encoder_vars, engineer_vars>>

(***************************************************************************)
(* Nullable values.                                                        *)
(***************************************************************************)
None == <<>>

Some(v) == <<v>>

IsNull(x) == x = <<>>

NotNull(x) == x # <<>>

Val(x) == x[1]

(***************************************************************************)
(* Raw cell values of a time column: NaN/None, a number, or a string.      *)
(***************************************************************************)
NaNVal == [kind |-> "nan", n |-> 0, s |-> <<>>]

Num(n) == [kind |-> "num", n |-> n, s |-> <<>>]

Str(s) == [kind |-> "str", n |-> 0, s |-> s]

DigitChars == <<"0", "1", "2", "3", "4", "5", "6", "7", "8", "9">>

IsDigit(c) == \E i \in 1..10 : DigitChars[i] = c

DigitVal(c) == (CHOOSE i \in 1..10 : DigitChars[i] = c) - 1

RECURSIVE DigitsValue(_)
\* the value of a non-empty sequence of decimal digits
DigitsValue(s) ==
    IF Len(s) = 0 THEN 0
    ELSE 10 * DigitsValue(SubSeq(s, 1, Len(s) - 1)) + DigitVal(s[Len(s)])

AllDigits(s) == Len(s) > 0 /\ \A i \in 1..Len(s) : IsDigit(s[i])

\* a decimal integer literal: an optional minus sign, then digits
IsIntLiteral(s) ==
    IF Len(s) > 0 /\ s[1] = "-" THEN AllDigits(Tail(s)) ELSE AllDigits(s)

IntLiteralValue(s) ==
    IF s[1] = "-" THEN 0 - DigitsValue(Tail(s)) ELSE DigitsValue(s)

RECURSIVE Digits(_)
\* the decimal digits of n >= 0
Digits(n) ==
    IF n < 10 THEN <<DigitChars[n + 1]>>
    ELSE Digits(n \div 10) \o <<DigitChars[(n % 10) + 1]>>

\* Format02d without the zero padding
FormatUnpadded(n) == IF n < 0 THEN <<"-">> \o Digits(0 - n) ELSE Digits(n)

\* the format specification 02d: sign and digits, zero-padded to width 2
Format02d(n) ==
    IF n < 0 THEN <<"-">> \o Digits(0 - n)
    ELSE IF n < 10 THEN <<"0">> \o Digits(n)
    ELSE Digits(n)

HasColon(s) == \E i \in 1..Len(s) : s[i] = ":"

\* int(hhmm) succeeds
IntOk(x) ==
    \/ x.kind = "num"
    \/ x.kind = "str" /\ IsIntLiteral(x.s)

\* int(hhmm)
IntOf(x) == IF x.kind = "num" THEN x.n ELSE IntLiteralValue(x.s)

hhmm_to_hhmmstr(hhmm) ==
    IF hhmm.kind = "nan" THEN None
    ELSE IF ~IntOk(hhmm)
         THEN IF hhmm.kind = "str" /\ HasColon(hhmm.s) THEN Some(hhmm.s)
              ELSE None
    ELSE LET h == IntOf(hhmm)
             hour == h \div 100
             minute == h % 100
         IN  Some(Format02d(hour) \o <<":">> \o Format02d(minute))

(***************************************************************************)
(* The proleptic Gregorian calendar of pd.Timestamp / pd.to_datetime.      *)
(***************************************************************************)
\* timedelta(days=n) in minutes
Days(n) == n * 1440

IsLeap(y) == (y % 4 = 0 /\ y % 100 # 0) \/ y % 400 = 0

DaysInMonth(y, m) ==
    IF m = 2 THEN (IF IsLeap(y) THEN 29 ELSE 28)
    ELSE IF m \in {4, 6, 9, 11} THEN 30
    ELSE 31

\* the days from 1970-01-01 to the civil date y-m-d
DaysFromCivil(y, m, d) ==
    LET yy == IF m <= 2 THEN y - 1 ELSE y
        era == yy \div 400
        yoe == yy - era * 400
        mp == IF m > 2 THEN m - 3 ELSE m + 9
        doy == (153 * mp + 2) \div 5 + d - 1
        doe == yoe * 365 + yoe \div 4 - yoe \div 100 + doy
    IN  era * 146097 + doe - 719468

\* the civil date [y, m, d] of day number z
CivilFromDays(z) ==
    LET zz == z + 719468
        era == zz \div 146097
        doe == zz - era * 146097
        yoe == (doe - doe \div 1460 + doe \div 36524 - doe \div 146096) \div 365
        doy == doe - (365 * yoe + yoe \div 4 - yoe \div 100)
        mp == (5 * doy + 2) \div 153
        d == doy - (153 * mp + 2) \div 5 + 1
        m == IF mp < 10 THEN mp + 3 ELSE mp - 9
    IN  [y |-> IF m <= 2 THEN yoe + era * 400 + 1 ELSE yoe + era * 400,
         m |-> m, d |-> d]

\* DayOfWeek counting from Sunday = 0
DayOfWeekSundayFirst(z) == (z + 4) % 7

\* Series.dt.dayofweek, Monday = 0 (1970-01-01 was a Thursday)
DayOfWeek(z) == (z + 3) % 7

\* pd.Timestamp(self.base_date.date()): the anchor date as a day number
Fallback(bd) == DaysFromCivil(bd.y, bd.m, bd.d)

(***************************************************************************)
(* pd.to_datetime of a year/month/day frame with errors='coerce': pandas   *)
(* adds the columns up as year*10000 + month*100 + day and parses the sum  *)
(* with the format %Y%m%d; a sum that is no calendar date becomes NaT, and *)
(* so does a row with a missing component.  (The years of the inputs have  *)
(* four digits and lie within the range of Timestamp.)                     *)
(***************************************************************************)
AssembleYmd(y, m, d) ==
    IF IsNull(y) \/ IsNull(m) \/ IsNull(d) THEN None
    ELSE LET v == Val(y) * 10000 + Val(m) * 100 + Val(d)
             Y == v \div 10000
             M == (v \div 100) % 100
             D == v % 100
         IN  IF /\ v >= 10000000
                /\ v <= 99999999
                /\ M >= 1
                /\ M <= 12
                /\ D >= 1
                /\ D <= DaysInMonth(Y, M)
             THEN Some(DaysFromCivil(Y, M, D))
             ELSE None

DateColumns == {"year", "month", "day"}

\* the date of one row in _make_date_series
make_date_row(r, cols, bd) ==
    IF DateColumns \subseteq cols
    THEN LET date == AssembleYmd(r.year, r.month, r.day)
         IN  IF IsNull(date) THEN Fallback(bd) ELSE Val(date)
    ELSE Fallback(bd)

(***************************************************************************)
(* _combine_date_and_time: split the string at ':', read the two parts as  *)
(* numbers (unreadable parts count as 0) and add them to the date.         *)
(***************************************************************************)
\* the position of the first ':' of s at or after position i, else Len(s)+1
FirstColon(s, i) ==
    IF \E j \in i..Len(s) : s[j] = ":"
    THEN CHOOSE j \in i..Len(s) :
             s[j] = ":" /\ \A k \in i..(j - 1) : s[k] # ":"
    ELSE Len(s) + 1

\* parts[0] and parts[1] of str.split(':', expand=True)
Part0(s) == SubSeq(s, 1, FirstColon(s, 1) - 1)

Part1(s) ==
    LET c == FirstColon(s, 1)
    IN  SubSeq(s, c + 1, FirstColon(s, c + 1) - 1)

\* pd.to_numeric(part, errors='coerce').fillna(0).astype(int)
ToNumericOrZero(s) == IF IsIntLiteral(s) THEN IntLiteralValue(s) ELSE 0

\* combine_date_and_time with the hour taken as an hour of the day
CombineHourOfDay(date, time_str) ==
    IF IsNull(time_str) THEN None
    ELSE LET hours == ToNumericOrZero(Part0(Val(time_str)))
             minutes == ToNumericOrZero(Part1(Val(time_str)))
         IN  Some(Days(date) + (hours % 24) * 60 + minutes)

combine_date_and_time(date, time_str) ==
    IF IsNull(time_str) THEN None
    ELSE LET hours == ToNumericOrZero(Part0(Val(time_str)))
             minutes == ToNumericOrZero(Part1(Val(time_str)))
         IN  Some(Days(date) + hours * 60 + minutes)

(***************************************************************************)
(* preprocess, lines 110-148: the correction passes.  Each works on one    *)
(* row [scheduled_departure, departure_time, scheduled_arrival,            *)
(* arrival_time] of the datetime columns; NaT + timedelta is NaT and a     *)
(* comparison with NaN or NaT is False.                                    *)
(***************************************************************************)
TimeCols ==
    {"scheduled_departure", "departure_time", "scheduled_arrival",
     "arrival_time"}

\* the reported delays of lines 113 and 130
DelayColumns == {"departure_delay", "arrival_delay"}

\* the 1000-minute cutoff of lines 117, 119, 134, 136
Cutoff1d == 1000

\* the 2000-minute cutoff of lines 117-120, 134-137
Cutoff2d == 2000

\* (actual - scheduled).dt.total_seconds() / 60
DelayMinutes(actual, scheduled) ==
    IF IsNull(actual) \/ IsNull(scheduled) THEN None
    ELSE Some(Val(actual) - Val(scheduled))

\* calc_delay - reported delay
Discrepancy(actual, scheduled, delay) ==
    LET calc == DelayMinutes(actual, scheduled)
    IN  IF IsNull(calc) \/ IsNull(delay) THEN None
        ELSE Some(Val(calc) - Val(delay))

\* ShiftDays with the two-day masks shifting a single day
ShiftDaysSingleDay(diff, delay) ==
    IF IsNull(diff) \/ IsNull(delay) THEN 0
    ELSE LET d == Val(diff)
             r == Val(delay)
         IN  IF d > Cutoff1d /\ r < 0 THEN 0 - 1
             ELSE IF d < 0 - Cutoff1d /\ r > 0 THEN 1
             ELSE 0

\* ShiftDays without the mirrored (forward) masks
ShiftDaysBackOnly(diff, delay) ==
    IF IsNull(diff) \/ IsNull(delay) THEN 0
    ELSE LET d == Val(diff)
             r == Val(delay)
         IN  IF d > Cutoff1d /\ d < Cutoff2d /\ r < 0 THEN 0 - 1
             ELSE IF d >= Cutoff2d /\ r < 0 THEN 0 - 2
             ELSE 0

\* ShiftDays with the one-day masks missing their 1000-minute tolerance
ShiftDaysNoTolerance(diff, delay) ==
    IF IsNull(diff) \/ IsNull(delay) THEN 0
    ELSE LET d == Val(diff)
             r == Val(delay)
         IN  IF d > 0 /\ d < Cutoff2d /\ r < 0 THEN 0 - 1
             ELSE IF d >= Cutoff2d /\ r < 0 THEN 0 - 2
             ELSE IF d < 0 /\ d > 0 - Cutoff2d /\ r > 0 THEN 1
             ELSE IF d <= 0 - Cutoff2d /\ r > 0 THEN 2
             ELSE 0

\* the four masks of lines 117-120 (134-137) and the days their four
\* updates add up to for one row
ShiftDays(diff, delay) ==
    IF IsNull(diff) \/ IsNull(delay) THEN 0
    ELSE LET d == Val(diff)
             r == Val(delay)
             ahead_1d == d > Cutoff1d /\ d < Cutoff2d /\ r < 0
             ahead_2d == d >= Cutoff2d /\ r < 0
             back_1d == d < 0 - Cutoff1d /\ d > 0 - Cutoff2d /\ r > 0
             back_2d == d <= 0 - Cutoff2d /\ r > 0
         IN  (IF ahead_1d THEN 0 - 1 ELSE 0) + (IF ahead_2d THEN 0 - 2 ELSE 0)
             + (IF back_1d THEN 1 ELSE 0) + (IF back_2d THEN 2 ELSE 0)

\* column += timedelta(days=n) on one cell
AddDays(t, n) == IF IsNull(t) THEN None ELSE Some(Val(t) + Days(n))

\* some cell of column c is not null: df[c].notna().any()
NotnaAny(table, c) == \E i \in 1..Len(table) : NotNull(table[i][c])

\* DepartureCorrectedRow gated on either delay column, taking the reported
\* delay from the one the table has
DepartureCorrectedRowEitherDelay(table, inp, cols, i) ==
    LET t == table[i]
        gate == /\ DelayColumns \cap cols # {}
                /\ NotnaAny(table, "departure_time")
                /\ NotnaAny(table, "scheduled_departure")
        delay == IF "departure_delay" \in cols THEN inp[i].departure_delay
                 ELSE inp[i].arrival_delay
        n == IF gate
             THEN ShiftDays(Discrepancy(t.departure_time,
                                        t.scheduled_departure, delay),
                            delay)
             ELSE 0
    IN  [t EXCEPT !.departure_time = AddDays(@, n),
                  !.arrival_time = AddDays(@, n),
                  !.scheduled_arrival = AddDays(@, n)]

\* DepartureCorrectedRow shifting the two actual timestamps only
DepartureCorrectedRowActualOnly(table, inp, cols, i) ==
    LET t == table[i]
        gate == /\ "departure_delay" \in cols
                /\ NotnaAny(table, "departure_time")
                /\ NotnaAny(table, "scheduled_departure")
        n == IF gate
             THEN ShiftDays(Discrepancy(t.departure_time,
                                        t.scheduled_departure,
                                        inp[i].departure_delay),
                            inp[i].departure_delay)
             ELSE 0
    IN  [t EXCEPT !.departure_time = AddDays(@, n),
                  !.arrival_time = AddDays(@, n)]

\* DepartureCorrectedRow shifting scheduled_departure with the other three
DepartureCorrectedRowAllFour(table, inp, cols, i) ==
    LET t == table[i]
        gate == /\ "departure_delay" \in cols
                /\ NotnaAny(table, "departure_time")
                /\ NotnaAny(table, "scheduled_departure")
        n == IF gate
             THEN ShiftDays(Discrepancy(t.departure_time,
                                        t.scheduled_departure,
                                        inp[i].departure_delay),
                            inp[i].departure_delay)
             ELSE 0
    IN  [c \in TimeCols |-> AddDays(t[c], n)]

\* lines 113-125 on row i of the table
DepartureCorrectedRow(table, inp, cols, i) ==
    LET t == table[i]
        gate == /\ "departure_delay" \in cols
                /\ NotnaAny(table, "departure_time")
                /\ NotnaAny(table, "scheduled_departure")
        n == IF gate
             THEN ShiftDays(Discrepancy(t.departure_time,
                                        t.scheduled_departure,
                                        inp[i].departure_delay),
                            inp[i].departure_delay)
             ELSE 0
    IN  [t EXCEPT !.departure_time = AddDays(@, n),
                  !.arrival_time = AddDays(@, n),
                  !.scheduled_arrival = AddDays(@, n)]

\* lines 130-142 on row i of the table
ArrivalCorrectedRow(table, inp, cols, i) ==
    LET t == table[i]
        gate == /\ "arrival_delay" \in cols
                /\ NotnaAny(table, "arrival_time")
                /\ NotnaAny(table, "scheduled_arrival")
        n == IF gate
             THEN ShiftDays(Discrepancy(t.arrival_time, t.scheduled_arrival,
                                        inp[i].arrival_delay),
                            inp[i].arrival_delay)
             ELSE 0
    IN  [t EXCEPT !.arrival_time = AddDays(@, n)]

\* lines 146-148 on one row
ArrivalAfterDepartureRow(t) ==
    LET arr_mask == /\ NotNull(t.arrival_time)
                    /\ NotNull(t.departure_time)
                    /\ Val(t.arrival_time) < Val(t.departure_time)
    IN  IF arr_mask
        THEN [t EXCEPT !.scheduled_arrival = AddDays(@, 1),
                       !.arrival_time = AddDays(@, 1)]
        ELSE t

\* lines 150-163 on row i
DerivedRow(t, inp, cols) ==
    LET dep == DelayMinutes(t.departure_time, t.scheduled_departure)
        arr == DelayMinutes(t.arrival_time, t.scheduled_arrival)
    IN  [dep_delay_min |-> dep,
         arr_delay_min |-> arr,
         is_delayed |-> IF "is_delayed" \notin cols
                        THEN Some(NotNull(dep) /\ Val(dep) > 15)
                        ELSE inp.is_delayed]

(***************************************************************************)
(* preprocess, lines 165-200: the calendar columns and date_summary.       *)
(***************************************************************************)
\* pd.to_datetime(df[['year','month','day']], errors='coerce') of line 176
CanonicalDeparture(inp) ==
    LET date == AssembleYmd(inp.year, inp.month, inp.day)
    IN  IF IsNull(date) THEN None ELSE Some(Days(Val(date)))

\* the date part of a timestamp, as a day number
DayOf(t) == Val(t) \div 1440

\* year, month, day, day_of_week of one output row (lines 169-186)
CalendarRow(sd, inp, cols) ==
    LET civil == CivilFromDays(DayOf(sd))
        own == DateColumns \subseteq cols
    IN  [year |-> IF own THEN inp.year
                  ELSE IF IsNull(sd) THEN None ELSE Some(civil.y),
         month |-> IF own THEN inp.month
                   ELSE IF IsNull(sd) THEN None ELSE Some(civil.m),
         day |-> IF own THEN inp.day
                 ELSE IF IsNull(sd) THEN None ELSE Some(civil.d),
         day_of_week |-> IF IsNull(sd) THEN None
                         ELSE Some(DayOfWeek(DayOf(sd)))]

\* sorted(df[col].dropna().unique().tolist()): the distinct values
Distinct(table, c) ==
    {Val(table[i][c]) : i \in {j \in 1..Len(table) : NotNull(table[j][c])}}

(***************************************************************************)
(* The state after FlightPreprocessor(base_date) and the table handed to   *)
(* preprocess.                                                             *)
(***************************************************************************)
\* datetime(2024, 1, 1), line 8
DefaultBaseDate == [y |-> 2024, m |-> 1, d |-> 1]

AllColumns == TimeCols \cup DelayColumns \cup DateColumns \cup {"is_delayed"}

\* a row holds a value only in the columns the table has
RowFits(r, cols) ==
    /\ \A c \in TimeCols \ cols : r[c] = NaNVal
    /\ \A c \in (DelayColumns \cup DateColumns \cup {"is_delayed"}) \ cols :
           r[c] = None

\* no AirportAnalyzer, SmoothedTargetEncoder or FlightFeatureEngineer has
\* been constructed
NoAnalyzer ==
    /\ df_flights = <<>>
    /\ df_airports = <<>>
    /\ df_metrics = <<>>
    /\ df_routes = <<>>
    /\ df_route_metrics = <<>>
    /\ plotted = <<>>
    /\ returned = <<>>

NoEncoder ==
    /\ m_smoothing = 0
    /\ n_splits = 0
    /\ train = <<>>
    /\ folds = <<>>
    /\ global_mean_ = <<>>
    /\ category_mapping_ = <<>>
    /\ encoded_feature = <<>>

NoEngineer ==
    /\ schedule = <<>>
    /\ features = <<>>

InitWith(bd, cols, table) ==
    /\ NoAnalyzer
    /\ NoEncoder
    /\ NoEngineer
    /\ base_date = bd
    /\ columns = cols
    /\ rows = table
    /\ hhmmstr = <<>>
    /\ date_series = <<>>
    /\ df = <<>>
    /\ derived = <<>>
    /\ calendar = <<>>
    /\ date_summary = <<>>
    /\ pc = "start"

Rows == 1..Len(rows)

(***************************************************************************)
(* preprocess, one action per numbered step of the method.                 *)
(***************************************************************************)
\* Step 1, lines 88-93
HhmmToStr ==
    /\ pc = "start"
    /\ hhmmstr' = [i \in Rows |->
                     [c \in TimeCols |->
                        IF c \in columns THEN hhmm_to_hhmmstr(rows[i][c])
                        ELSE None]]
    /\ pc' = "hhmmstr"
    /\ UNCHANGED <<base_date, columns, rows, date_series, df, derived,
                   calendar, date_summary>>
    /\ UNCHANGED <<analyzer_vars, encoder_vars, engineer_vars>>

\* some row of the year/month/day columns has a missing component
HasMissingYmd ==
    /\ DateColumns \subseteq columns
    /\ \E i \in Rows :
           IsNull(rows[i].year) \/ IsNull(rows[i].month) \/ IsNull(rows[i].day)

\* Whether pd.to_datetime raises on the Int64 year/month/day frame: with a
\* pd.NA among the components the conversion to int64 inside pandas fails in
\* the pandas releases that do not accept masked integers there, and works
\* in the others.
AssembleRaises == IF HasMissingYmd THEN BOOLEAN ELSE {FALSE}

\* Step 2, line 96 (_make_date_series, lines 25-48)
MakeDateSeries ==
    /\ pc = "hhmmstr"
    /\ \E raises \in AssembleRaises :
           date_series' = [i \in Rows |->
                             IF raises THEN Fallback(base_date)
                             ELSE make_date_row(rows[i], columns, base_date)]
    /\ pc' = "dates"
    /\ UNCHANGED <<base_date, columns, rows, hhmmstr, df, derived, calendar,
                   date_summary>>
    /\ UNCHANGED <<analyzer_vars, encoder_vars, engineer_vars>>

\* Step 3, lines 98-108
CombineDateAndTime ==
    /\ pc = "dates"
    /\ df' = [i \in Rows |->
                [c \in TimeCols |->
                   combine_date_and_time(date_series[i], hhmmstr[i][c])]]
    /\ pc' = "combined"
    /\ UNCHANGED <<base_date, columns, rows, hhmmstr, date_series, derived,
                   calendar, date_summary>>
    /\ UNCHANGED <<analyzer_vars, encoder_vars, engineer_vars>>

\* lines 110-125
DepartureCorrection ==
    /\ pc = "combined"
    /\ df' = [i \in Rows |-> DepartureCorrectedRow(df, rows, columns, i)]
    /\ pc' = "dep_corrected"
    /\ UNCHANGED <<base_date, columns, rows, hhmmstr, date_series, derived,
                   calendar, date_summary>>
    /\ UNCHANGED <<analyzer_vars, encoder_vars, engineer_vars>>

\* lines 127-142
ArrivalCorrection ==
    /\ pc = "dep_corrected"
    /\ df' = [i \in Rows |-> ArrivalCorrectedRow(df, rows, columns, i)]
    /\ pc' = "arr_corrected"
    /\ UNCHANGED <<base_date, columns, rows, hhmmstr, date_series, derived,
                   calendar, date_summary>>
    /\ UNCHANGED <<analyzer_vars, encoder_vars, engineer_vars>>

\* lines 144-148
FixArrivalBeforeDeparture ==
    /\ pc = "arr_corrected"
    /\ df' = [i \in Rows |-> ArrivalAfterDepartureRow(df[i])]
    /\ pc' = "ordered"
    /\ UNCHANGED <<base_date, columns, rows, hhmmstr, date_series, derived,
                   calendar, date_summary>>
    /\ UNCHANGED <<analyzer_vars, encoder_vars, engineer_vars>>

\* lines 150-163
RecomputeDerived ==
    /\ pc = "ordered"
    /\ derived' = [i \in Rows |-> DerivedRow(df[i], rows[i], columns)]
    /\ pc' = "derived"
    /\ UNCHANGED <<base_date, columns, rows, hhmmstr, date_series, df,
                   calendar, date_summary>>
    /\ UNCHANGED <<analyzer_vars, encoder_vars, engineer_vars>>

\* lines 165-202: the calendar columns, date_summary, return df.  Line 176
\* runs when the table has year/month/day and no scheduled departure at all;
\* the exception pd.to_datetime raises there is not caught.
CalendarComponents ==
    /\ pc = "derived"
    /\ LET fill == /\ DateColumns \subseteq columns
                   /\ ~NotnaAny(df, "scheduled_departure")
           out == [i \in Rows |->
                     IF fill
                     THEN [df[i] EXCEPT
                             !.scheduled_departure = CanonicalDeparture(rows[i])]
                     ELSE df[i]]
           cal == [i \in Rows |->
                     CalendarRow(out[i].scheduled_departure, rows[i], columns)]
       IN  \E raises \in (IF fill THEN AssembleRaises ELSE {FALSE}) :
               IF raises
               THEN /\ pc' = "raised"
                    /\ UNCHANGED <<df, calendar, date_summary>>
               ELSE /\ df' = out
                    /\ calendar' = cal
                    /\ date_summary' =
                           [c \in {"year", "month", "day", "day_of_week"} |->
                              Distinct(cal, c)]
                    /\ pc' = "done"
    /\ UNCHANGED <<base_date, columns, rows, hhmmstr, date_series, derived>>
    /\ UNCHANGED <<analyzer_vars, encoder_vars, engineer_vars>>

Next ==
    \/ HhmmToStr
    \/ MakeDateSeries
    \/ CombineDateAndTime
    \/ DepartureCorrection
    \/ ArrivalCorrection
    \/ FixArrivalBeforeDeparture
    \/ RecomputeDerived
    \/ CalendarComponents

(***************************************************************************)
(* The tables the specifications run preprocess on.  A table has a first   *)
(* row drawn from the set under study and up to MaxRows - 1 further rows.  *)
(***************************************************************************)
MaxRows == 2

Tables(Lead, Others) ==
    UNION {{<<r>> \o o : r \in Lead, o \in [1..k -> Others]} :
             k \in 0..(MaxRows - 1)}

RowSet(Y, M, D, SD, DT, SA, AT, DD, AD, ISD) ==
    [year : Y, month : M, day : D,
     scheduled_departure : SD, departure_time : DT,
     scheduled_arrival : SA, arrival_time : AT,
     departure_delay : DD, arrival_delay : AD, is_delayed : ISD]

\* a row with no value at all
NullRow ==
    [year |-> None, month |-> None, day |-> None,
     scheduled_departure |-> NaNVal, departure_time |-> NaNVal,
     scheduled_arrival |-> NaNVal, arrival_time |-> NaNVal,
     departure_delay |-> None, arrival_delay |-> None, is_delayed |-> None]

\* a flight on time within the day
PlainRow ==
    [year |-> None, month |-> None, day |-> None,
     scheduled_departure |-> Num(5), departure_time |-> Num(5),
     scheduled_arrival |-> Num(2350), arrival_time |-> Num(2350),
     departure_delay |-> Some(0), arrival_delay |-> Some(0),
     is_delayed |-> None]

\* HHMM values around midnight, and a missing one
MainTimes == {NaNVal, Num(5), Num(2350)}

\* reported delays in minutes, and a missing one
MainDelays ==
    {None, Some(0 - 3000), Some(0 - 600), Some(0 - 15), Some(0), Some(15),
     Some(600), Some(3000)}

\* reported arrival delays
MainArrivalDelays == {None, Some(0 - 600), Some(0 - 15), Some(15)}

MainColumns == TimeCols \cup DelayColumns

MainRows ==
    RowSet({None}, {None}, {None}, MainTimes, MainTimes \cup {Num(2405)},
           MainTimes, MainTimes, MainDelays, MainArrivalDelays, {None})

\* Tables with the four time columns and the two delay columns, dated by
\* the default anchor date.
Init ==
    \E table \in Tables(MainRows, {NullRow, PlainRow}) :
        InitWith(DefaultBaseDate, MainColumns, table)

(***************************************************************************)
(* Tables that exercise the time encodings: one row whose                  *)
(* scheduled_departure runs over the HHMM numbers 100*h + m, the same as   *)
(* numeric strings, and strings with and without a colon.                  *)
(***************************************************************************)
MaxHour == 24

MaxMinute == 60

HhmmNumbers == {100 * h + m : h \in 0..MaxHour, m \in 0..MaxMinute}

OddTimes ==
    {NaNVal, Num(0 - 5), Num(12345),
     Str(<<"2", "4", ":", "0", "0">>), Str(<<"9", ":", "3", "0">>),
     Str(<<"a", ":", "b">>), Str(<<"1", "2", ":">>), Str(<<":", "3", "0">>),
     Str(<<"a", "b">>), Str(<<"-", "5">>), Str(<<>>)}

TimeValues ==
    {Num(n) : n \in HhmmNumbers} \cup {Str(Digits(n)) : n \in HhmmNumbers}
        \cup OddTimes

\* month ends, a leap day and a year end
TimeDates == {<<2024, 2, 28>>, <<2023, 2, 28>>, <<2024, 12, 31>>}

TimeRows ==
    UNION {RowSet({Some(date[1])}, {Some(date[2])}, {Some(date[3])},
                  TimeValues, {NaNVal}, {NaNVal}, {NaNVal}, {None}, {None},
                  {None}) : date \in TimeDates}

UndatedTimeRows ==
    RowSet({None}, {None}, {None}, TimeValues, {NaNVal}, {NaNVal}, {NaNVal},
           {None}, {None}, {None})

InitTime ==
    \/ \E table \in Tables(TimeRows, {}) :
           InitWith(DefaultBaseDate, {"scheduled_departure"} \cup DateColumns,
                    table)
    \/ \E table \in Tables(UndatedTimeRows, {}) :
           InitWith(DefaultBaseDate, {"scheduled_departure"}, table)

SpecTime == InitTime /\ [][Next]_vars

(***************************************************************************)
(* Tables that exercise the dates: year/month/day triples that are dates,  *)
(* that are none, and with components missing, under two anchor dates.     *)
(***************************************************************************)
DateYears == {None, Some(2023), Some(2024)}

DateMonths == {None, Some(0), Some(2), Some(12), Some(13)}

DateDays == {None, Some(0), Some(29), Some(31), Some(105)}

DateTimes == {NaNVal, Num(930)}

DateRows ==
    RowSet(DateYears, DateMonths, DateDays, DateTimes, {NaNVal}, {NaNVal},
           {NaNVal}, {None}, {None}, {None})

\* a record of 2024-02-29 at 09:30, and one of 2023-12-31 with no time
DatedRows ==
    RowSet({Some(2024)}, {Some(2)}, {Some(29)}, {Num(930)}, {NaNVal},
           {NaNVal}, {NaNVal}, {None}, {None}, {None})
    \cup RowSet({Some(2023)}, {Some(12)}, {Some(31)}, {NaNVal}, {NaNVal},
                {NaNVal}, {NaNVal}, {None}, {None}, {None})

BaseDates == {DefaultBaseDate, [y |-> 2023, m |-> 6, d |-> 15]}

InitDate ==
    \E bd \in BaseDates :
        \/ \E table \in Tables(DateRows, DatedRows) :
               InitWith(bd, {"scheduled_departure"} \cup DateColumns, table)
        \/ \E table \in Tables({r \in DateRows : RowFits(r, {"scheduled_departure"})},
                               {}) :
               InitWith(bd, {"scheduled_departure"}, table)

SpecDate == InitDate /\ [][Next]_vars

(***************************************************************************)
(* Tables that exercise the optional columns: every column present, or one *)
(* of the time columns, delay columns, is_delayed or the year/month/day    *)
(* group absent.                                                           *)
(***************************************************************************)
ColumnSets ==
    {AllColumns} \cup {AllColumns \ {c} : c \in AllColumns \ DateColumns}
        \cup {AllColumns \ DateColumns}

ColsDepartures == {NaNVal, Num(5), Num(2350)}

ColsArrivals == {NaNVal, Num(2350)}

ColsDelays == {None, Some(15)}

ColsFlags == {None, Some(TRUE), Some(FALSE)}

\* records of 2024-03-10, and the same without a date
ColsRows ==
    RowSet({Some(2024)}, {Some(3)}, {Some(10)}, ColsDepartures,
           ColsDepartures, ColsArrivals, ColsArrivals, ColsDelays, ColsDelays,
           ColsFlags)
    \cup RowSet({None}, {None}, {None}, ColsDepartures, ColsDepartures,
                ColsArrivals, ColsArrivals, ColsDelays, ColsDelays, ColsFlags)

\* the rows of a table with the columns cols: no value in an absent column,
\* a date when the table has year/month/day
ColsRowsOf(S, cols) ==
    {r \in S : RowFits(r, cols)
                  /\ (DateColumns \subseteq cols => NotNull(r.year))}

\* a record with a date at most
BlankRows ==
    {[NullRow EXCEPT !.year = Some(2024), !.month = Some(3),
                     !.day = Some(10)], NullRow}

InitCols ==
    \E cols \in ColumnSets :
        \E table \in Tables(ColsRowsOf(ColsRows, cols),
                            ColsRowsOf(BlankRows, cols)) :
            InitWith(DefaultBaseDate, cols, table)

SpecCols == InitCols /\ [][Next]_vars

Spec == Init /\ [][Next]_vars

(***************************************************************************)
(* What the properties below speak about.                                  *)
(***************************************************************************)
Abs(n) == IF n < 0 THEN 0 - n ELSE n

\* preprocess has combined dates and times / has run its departure pass /
\* has returned
Combined == pc \notin {"start", "hhmmstr", "dates", "raised"}

DepartureDone == Combined /\ pc # "combined"

Done == pc = "done"

\* the raw combination of row i's date and its time value in column c
Raw(i, c) == combine_date_and_time(date_series[i], hhmmstr[i][c])

\* the departure discrepancy of row i before any correction:
\* raw departure_time - raw scheduled_departure - departure_delay
RawDepDiff(i) ==
    Discrepancy(Raw(i, "departure_time"), Raw(i, "scheduled_departure"),
                rows[i].departure_delay)

\* the timestamp of the civil date y-m-d at hh:mm
At(y, m, d, hh, mm) == Some(Days(DaysFromCivil(y, m, d)) + hh * 60 + mm)

(***************************************************************************)
(* C1: after preprocess every record with an arrival_time and a            *)
(* departure_time has arrival_time >= departure_time.                      *)
(***************************************************************************)
C1_ArrivalNotBeforeDeparture ==
    Done =>
        \A i \in Rows :
            NotNull(df[i].arrival_time) /\ NotNull(df[i].departure_time)
                => Val(df[i].arrival_time) >= Val(df[i].departure_time)

(***************************************************************************)
(* C2, as claimed: after preprocess, for every record with a scheduled     *)
(* departure, a departure time and a reported departure delay,             *)
(* dep_delay_min differs from the reported delay by at most 1000 minutes.  *)
(***************************************************************************)
C2_DelayAgreesWithReported ==
    Done =>
        \A i \in Rows :
            /\ NotNull(df[i].scheduled_departure)
            /\ NotNull(df[i].departure_time)
            /\ NotNull(rows[i].departure_delay)
            => /\ NotNull(derived[i].dep_delay_min)
               /\ Abs(Val(derived[i].dep_delay_min)
                      - Val(rows[i].departure_delay)) <= 1000

\* the discrepancies the departure pass brings within 1000 minutes: those
\* already there, and those of more than 1000 and at most 3880 minutes
\* whose direction the sign of the reported delay contradicts
Reconcilable(diff, delay) ==
    \/ Abs(diff) <= 1000
    \/ diff > 1000 /\ diff <= 3880 /\ delay < 0
    \/ diff < 0 - 1000 /\ diff >= 0 - 3880 /\ delay > 0

(***************************************************************************)
(* C2, amended: after preprocess dep_delay_min differs from the reported   *)
(* departure delay by at most 1000 minutes for every record whose raw      *)
(* discrepancy is within [-1000, 1000], or in (1000, 3880] with a negative *)
(* reported delay, or in [-3880, -1000) with a positive reported delay.    *)
(***************************************************************************)
C2_ReconcilableDelayAgrees ==
    Done =>
        \A i \in Rows :
            NotNull(RawDepDiff(i))
            /\ Reconcilable(Val(RawDepDiff(i)), Val(rows[i].departure_delay))
            => /\ NotNull(derived[i].dep_delay_min)
               /\ Abs(Val(derived[i].dep_delay_min)
                      - Val(rows[i].departure_delay)) <= 1000

\* a record two days off (discrepancy 3000, reported delay -3000) has been
\* brought back within 1000 minutes
C2_Witness ==
    /\ Done
    /\ \E i \in Rows :
           /\ NotNull(RawDepDiff(i))
           /\ Val(RawDepDiff(i)) >= 2000
           /\ Val(rows[i].departure_delay) < 0
           /\ Abs(Val(derived[i].dep_delay_min)
                  - Val(rows[i].departure_delay)) <= 1000

\* row i is the record scheduled at 23:50 whose departure time reads hhmm,
\* with a reported delay of 15 minutes, dated 2024-01-01
LateEvening(i, hhmm) ==
    /\ rows[i].scheduled_departure = Num(2350)
    /\ rows[i].departure_time = Num(hhmm)
    /\ rows[i].departure_delay = Some(15)
    /\ date_series[i] = DaysFromCivil(2024, 1, 1)

(***************************************************************************)
(* C3: a departure discrepancy below -1000 with a positive reported delay  *)
(* shifts the departure forward, by one day when the discrepancy is in     *)
(* (-2000, -1000) and by two days when it is <= -2000; scheduled 23:50,    *)
(* actual 00:05, delay +15 gives 00:05 of the next day.                    *)
(***************************************************************************)
C3_ForwardShift ==
    DepartureDone =>
        \A i \in Rows :
            /\ ( /\ NotNull(RawDepDiff(i))
                 /\ Val(RawDepDiff(i)) < 0 - 1000
                 /\ Val(rows[i].departure_delay) > 0
                 => df[i].departure_time =
                        AddDays(Raw(i, "departure_time"),
                                IF Val(RawDepDiff(i)) > 0 - 2000 THEN 1 ELSE 2) )
            /\ ( LateEvening(i, 5)
                 => df[i].departure_time = At(2024, 1, 2, 0, 5) )

C3_Witness ==
    /\ Done
    /\ \E i \in Rows :
           LateEvening(i, 5) /\ df[i].departure_time = At(2024, 1, 2, 0, 5)

\* the days the backward correction of a pass is claimed to subtract from a
\* row with discrepancy diff and reported delay, 0 when it does not apply
BackwardDays(diff, delay) ==
    IF NotNull(diff) /\ Val(delay) < 0 /\ Val(diff) > 1000
    THEN (IF Val(diff) < 2000 THEN 0 - 1 ELSE 0 - 2)
    ELSE 0

\* the discrepancy of row i as the departure (arrival) pass reads it
DepDiffNow(i) ==
    Discrepancy(df[i].departure_time, df[i].scheduled_departure,
                rows[i].departure_delay)

ArrDiffNow(i) ==
    Discrepancy(df[i].arrival_time, df[i].scheduled_arrival,
                rows[i].arrival_delay)

\* the arrival pass on a row its backward correction applies to
ArrivalBackward(i) ==
    LET n == BackwardDays(ArrDiffNow(i), rows[i].arrival_delay)
    IN  n # 0 =>
            /\ df'[i].arrival_time = AddDays(df[i].arrival_time, n)
            /\ df'[i].departure_time = df[i].departure_time
            /\ df'[i].scheduled_departure = df[i].scheduled_departure
            /\ df'[i].scheduled_arrival = df[i].scheduled_arrival

(***************************************************************************)
(* C4, as claimed: a discrepancy in (1000, 2000) with a negative reported  *)
(* delay subtracts exactly one day from the actual-side timestamps, one of *)
(* 2000 or more exactly two days, and the scheduled timestamps are not     *)
(* shifted by the correction.                                              *)
(***************************************************************************)
C4_BackwardShiftActualOnly ==
    [][ /\ DepartureCorrection =>
            \A i \in Rows :
                LET n == BackwardDays(DepDiffNow(i), rows[i].departure_delay)
                IN  n # 0 =>
                        /\ df'[i].departure_time
                               = AddDays(df[i].departure_time, n)
                        /\ df'[i].arrival_time = AddDays(df[i].arrival_time, n)
                        /\ df'[i].scheduled_departure
                               = df[i].scheduled_departure
                        /\ df'[i].scheduled_arrival = df[i].scheduled_arrival
        /\ ArrivalCorrection => \A i \in Rows : ArrivalBackward(i) ]_vars

(***************************************************************************)
(* C4, amended: the departure pass subtracts the one or two days from      *)
(* departure_time, arrival_time and also scheduled_arrival, leaving        *)
(* scheduled_departure; the arrival pass subtracts them from arrival_time  *)
(* alone.                                                                  *)
(***************************************************************************)
C4_BackwardShift ==
    [][ /\ DepartureCorrection =>
            \A i \in Rows :
                LET n == BackwardDays(DepDiffNow(i), rows[i].departure_delay)
                IN  n # 0 =>
                        /\ df'[i].departure_time
                               = AddDays(df[i].departure_time, n)
                        /\ df'[i].arrival_time = AddDays(df[i].arrival_time, n)
                        /\ df'[i].scheduled_departure
                               = df[i].scheduled_departure
                        /\ df'[i].scheduled_arrival
                               = AddDays(df[i].scheduled_arrival, n)
        /\ ArrivalCorrection => \A i \in Rows : ArrivalBackward(i) ]_vars

\* the departure pass has taken two days off a record's departure_time and
\* off its scheduled_arrival
C4_Witness ==
    /\ pc = "dep_corrected"
    /\ \E i \in Rows :
           /\ NotNull(RawDepDiff(i))
           /\ Val(RawDepDiff(i)) >= 2000
           /\ Val(rows[i].departure_delay) < 0
           /\ NotNull(df[i].scheduled_arrival)
           /\ df[i].scheduled_arrival
                  = AddDays(Raw(i, "scheduled_arrival"), 0 - 2)
           /\ df[i].departure_time = AddDays(Raw(i, "departure_time"), 0 - 2)

(***************************************************************************)
(* C5: a record whose departure discrepancy is within [-1000, 1000] keeps  *)
(* the raw combination of date and time as its departure_time; scheduled   *)
(* 2024-01-01T23:50, actual 2024-01-02T00:05, reported +15 stays as it is. *)
(***************************************************************************)
C5_WithinToleranceNoShift ==
    DepartureDone =>
        \A i \in Rows :
            /\ ( NotNull(RawDepDiff(i)) /\ Abs(Val(RawDepDiff(i))) <= 1000
                 => df[i].departure_time = Raw(i, "departure_time") )
            /\ ( LateEvening(i, 2405)
                 => df[i].departure_time = At(2024, 1, 2, 0, 5) )

C5_Witness ==
    /\ Done
    /\ \E i \in Rows :
           /\ LateEvening(i, 2405)
           /\ Val(RawDepDiff(i)) = 0
           /\ df[i].departure_time = At(2024, 1, 2, 0, 5)

(***************************************************************************)
(* The calendar as the claims speak of it: the day after a civil date.     *)
(***************************************************************************)
NextCivil(c) ==
    IF c.d < DaysInMonth(c.y, c.m) THEN [c EXCEPT !.d = c.d + 1]
    ELSE IF c.m < 12 THEN [y |-> c.y, m |-> c.m + 1, d |-> 1]
    ELSE [y |-> c.y + 1, m |-> 1, d |-> 1]

\* the civil date preprocess is to use for row i: the row's own
\* year/month/day when the table has them, else the anchor date
GivenDate(i) ==
    IF DateColumns \subseteq columns
       /\ NotNull(rows[i].year) /\ NotNull(rows[i].month)
       /\ NotNull(rows[i].day)
    THEN [y |-> Val(rows[i].year), m |-> Val(rows[i].month),
          d |-> Val(rows[i].day)]
    ELSE base_date

\* the civil date and the minute of the day of a timestamp
CivilOf(t) == CivilFromDays(Val(t) \div 1440)

MinuteOfDay(t) == Val(t) % 1440

Midnight2400 == {Num(2400), Str(<<"2", "4", ":", "0", "0">>)}

(***************************************************************************)
(* C6: the time value 24:00 (the number 2400 or the string "24:00")        *)
(* combined with date D is 00:00 of the day after D.                       *)
(***************************************************************************)
C6_MidnightRollsToNextDay ==
    Combined =>
        \A i \in Rows :
            rows[i].scheduled_departure \in Midnight2400
            => /\ NotNull(df[i].scheduled_departure)
               /\ CivilOf(df[i].scheduled_departure) = NextCivil(GivenDate(i))
               /\ MinuteOfDay(df[i].scheduled_departure) = 0

\* 24:00 on 2024-12-31 has become 2025-01-01T00:00
C6_Witness ==
    /\ Done
    /\ \E i \in Rows :
           /\ rows[i].scheduled_departure = Num(2400)
           /\ GivenDate(i) = [y |-> 2024, m |-> 12, d |-> 31]
           /\ df[i].scheduled_departure = At(2025, 1, 1, 0, 0)

\* the number a raw value gives, as a number or as a string of digits
NumberOf(x) == IF x.kind = "num" THEN x.n ELSE DigitsValue(x.s)

\* x encodes a time of day h:m as the HHMM number 100*h + m
IsTimeOfDay(x) ==
    /\ x.kind = "num" \/ (x.kind = "str" /\ AllDigits(x.s))
    /\ NumberOf(x) >= 0
    /\ NumberOf(x) \div 100 <= 23
    /\ NumberOf(x) % 100 <= 59

TwoDigits(k) == <<DigitChars[(k \div 10) + 1], DigitChars[(k % 10) + 1]>>

(***************************************************************************)
(* C7: an HHMM value 100*h + m with h <= 23 and m <= 59, a number or a     *)
(* numeric string, becomes the zero-padded string "hh:mm" and, combined    *)
(* with date D, the timestamp D at h:m.                                    *)
(***************************************************************************)
C7_HhmmRoundTrip ==
    \A i \in Rows :
        IsTimeOfDay(rows[i].scheduled_departure) =>
            LET h == NumberOf(rows[i].scheduled_departure) \div 100
                m == NumberOf(rows[i].scheduled_departure) % 100
            IN  /\ pc # "start" =>
                       hhmmstr[i].scheduled_departure
                           = Some(TwoDigits(h) \o <<":">> \o TwoDigits(m))
                /\ Combined =>
                       /\ NotNull(df[i].scheduled_departure)
                       /\ CivilOf(df[i].scheduled_departure) = GivenDate(i)
                       /\ MinuteOfDay(df[i].scheduled_departure) = 60 * h + m

\* 930 became "09:30"
C7_Witness ==
    /\ Done
    /\ \E i \in Rows :
           /\ rows[i].scheduled_departure = Num(930)
           /\ GivenDate(i) = [y |-> 2024, m |-> 1, d |-> 1]
           /\ hhmmstr[i].scheduled_departure = Some(<<"0", "9", ":", "3", "0">>)
           /\ df[i].scheduled_departure = At(2024, 1, 1, 9, 30)

\* x is a time 'h:m' written with a colon: digits, an hour <= 23 and a
\* minute <= 59, or 24:00
IsColonTime(x) ==
    /\ x.kind = "str"
    /\ HasColon(x.s)
    /\ AllDigits(Part0(x.s))
    /\ AllDigits(Part1(x.s))
    /\ \/ DigitsValue(Part0(x.s)) <= 23 /\ DigitsValue(Part1(x.s)) <= 59
       \/ DigitsValue(Part0(x.s)) = 24 /\ DigitsValue(Part1(x.s)) = 0

\* x is missing, unparseable or no valid encoding of a time
IsInvalidTime(x) ==
    ~IsTimeOfDay(x) /\ ~IsColonTime(x) /\ x \notin Midnight2400

(***************************************************************************)
(* C9: a raw time value that is missing, unparseable or an invalid time    *)
(* encoding is normalized to null, its timestamp is null, and preprocess   *)
(* does not raise.                                                         *)
(***************************************************************************)
C9_InvalidTimeIsNull ==
    /\ pc # "raised"
    /\ \A i \in Rows :
           IsInvalidTime(rows[i].scheduled_departure) =>
               /\ pc # "start" => IsNull(hhmmstr[i].scheduled_departure)
               /\ Done => IsNull(df[i].scheduled_departure)

\* row i's year/month/day are present and form a calendar date
IsCalendarDate(i) ==
    /\ NotNull(rows[i].year) /\ NotNull(rows[i].month) /\ NotNull(rows[i].day)
    /\ Val(rows[i].month) \in 1..12
    /\ Val(rows[i].day) >= 1
    /\ Val(rows[i].day) <= DaysInMonth(Val(rows[i].year), Val(rows[i].month))

\* the date C8 has preprocess use for row i
DateToUse(i) ==
    IF DateColumns \subseteq columns /\ IsCalendarDate(i) THEN GivenDate(i)
    ELSE base_date

(***************************************************************************)
(* C8: the date preprocess uses for a record is the record's own           *)
(* year/month/day when the columns are present and form a valid calendar   *)
(* date, and the anchor date when they are absent, missing or invalid; a   *)
(* present time value then gives a timestamp on that date.                 *)
(***************************************************************************)
C8_OwnDateOrAnchor ==
    \A i \in Rows :
        /\ pc \notin {"start", "hhmmstr"} =>
               CivilFromDays(date_series[i]) = DateToUse(i)
        /\ Done /\ rows[i].scheduled_departure = Num(930) =>
               /\ NotNull(df[i].scheduled_departure)
               /\ CivilOf(df[i].scheduled_departure) = DateToUse(i)

(***************************************************************************)
(* C10: when an optional column is absent preprocess does not raise and    *)
(* the outputs that depend on the column are null for every record: the    *)
(* column's timestamp, dep_delay_min / arr_delay_min, and the default      *)
(* is_delayed.                                                             *)
(***************************************************************************)
C10_AbsentColumnGivesNull ==
    /\ pc # "raised"
    /\ Done =>
           \A i \in Rows :
               /\ \A c \in TimeCols \ columns : IsNull(df[i][c])
               /\ {"departure_time", "scheduled_departure"} \ columns # {} =>
                      /\ IsNull(derived[i].dep_delay_min)
                      /\ "is_delayed" \notin columns =>
                             IsNull(derived[i].is_delayed)
               /\ {"arrival_time", "scheduled_arrival"} \ columns # {} =>
                      IsNull(derived[i].arr_delay_min)

(***************************************************************************)
(* C11: a table without departure_delay leaves every timestamp as it is    *)
(* in the departure-side pass, a table without arrival_delay leaves every  *)
(* timestamp as it is in the arrival-side pass, no step of preprocess      *)
(* raises on such a table, and the final arrival-after-departure pass      *)
(* still adds its day to the records that arrive before they depart.       *)
(***************************************************************************)
DelayColumnAbsent == DelayColumns \ columns # {}

C11_AbsentDelaySkipsPass ==
    [][DelayColumnAbsent =>
           /\ pc' # "raised"
           /\ pc = "combined" /\ "departure_delay" \notin columns => df' = df
           /\ pc = "dep_corrected" /\ "arrival_delay" \notin columns =>
                  df' = df
           /\ pc = "arr_corrected" =>
                  \A i \in Rows :
                      /\ NotNull(df[i].arrival_time)
                      /\ NotNull(df[i].departure_time)
                      /\ Val(df[i].arrival_time) < Val(df[i].departure_time)
                      => df'[i].arrival_time = AddDays(df[i].arrival_time, 1)]_vars

\* preprocess has returned a table without departure_delay in which a
\* record departs 1425 minutes before its schedule, a rollover the
\* departure-side pass would have answered had a delay been reported, and
\* its departure_time is the raw one
C11_Witness ==
    /\ Done
    /\ "departure_delay" \notin columns
    /\ "arrival_delay" \in columns
    /\ \E i \in Rows :
           /\ NotNull(rows[i].arrival_delay)
           /\ DelayMinutes(Raw(i, "departure_time"),
                           Raw(i, "scheduled_departure")) = Some(0 - 1425)
           /\ df[i].departure_time = Raw(i, "departure_time")

(***************************************************************************)
(* C12: in the table preprocess returns, dep_delay_min and arr_delay_min   *)
(* of every record are the minutes between its actual and its scheduled    *)
(* timestamp as returned; is_delayed is dep_delay_min > 15 when the input  *)
(* has no is_delayed column, and the input's value when it has one.        *)
(***************************************************************************)
C12_DelaysFromFinalTimestamps ==
    Done =>
        \A i \in Rows :
            /\ derived[i].dep_delay_min =
                   DelayMinutes(df[i].departure_time, df[i].scheduled_departure)
            /\ derived[i].arr_delay_min =
                   DelayMinutes(df[i].arrival_time, df[i].scheduled_arrival)
            /\ "is_delayed" \notin columns =>
                   derived[i].is_delayed =
                       Some(/\ NotNull(derived[i].dep_delay_min)
                            /\ Val(derived[i].dep_delay_min) > 15)
            /\ "is_delayed" \in columns =>
                   derived[i].is_delayed = rows[i].is_delayed

(***************************************************************************)
(* C13: in the table preprocess returns, day_of_week (Monday = 0) of every *)
(* record is the weekday of its returned scheduled_departure; when the     *)
(* input has no year/month/day columns, year, month and day are the civil  *)
(* date of the returned scheduled_departure, and when the input has them   *)
(* they are the input's values.                                            *)
(***************************************************************************)
\* the weekday of day number z, counted from Monday 2024-01-01
WeekdayFromMonday(z) == (z - DaysFromCivil(2024, 1, 1)) % 7

C13_CalendarFromScheduledDeparture ==
    Done =>
        \A i \in Rows :
            LET sd == df[i].scheduled_departure
                cal == calendar[i]
            IN  /\ IsNull(sd) => IsNull(cal.day_of_week)
                /\ NotNull(sd) =>
                       cal.day_of_week = Some(WeekdayFromMonday(DayOf(sd)))
                /\ ~(DateColumns \subseteq columns) /\ NotNull(sd) =>
                       /\ NotNull(cal.year) /\ NotNull(cal.month)
                       /\ NotNull(cal.day)
                       /\ At(Val(cal.year), Val(cal.month), Val(cal.day),
                             MinuteOfDay(sd) \div 60, MinuteOfDay(sd) % 60) = sd
                /\ ~(DateColumns \subseteq columns) /\ IsNull(sd) =>
                       IsNull(cal.year) /\ IsNull(cal.month) /\ IsNull(cal.day)
                /\ DateColumns \subseteq columns =>
                       /\ cal.year = rows[i].year
                       /\ cal.month = rows[i].month
                       /\ cal.day = rows[i].day

\* preprocess has returned a table without year/month/day whose record is
\* scheduled at 09:30 on the anchor date Thursday 2023-06-15
C13_Witness ==
    /\ Done
    /\ DateColumns \cap columns = {}
    /\ \E i \in Rows :
           /\ df[i].scheduled_departure = At(2023, 6, 15, 9, 30)
           /\ calendar[i] = [year |-> Some(2023), month |-> Some(6),
                             day |-> Some(15), day_of_week |-> Some(3)]

(***************************************************************************)
(* preprocess as a function of the table: the records it returns for the   *)
(* table with the columns cols under the anchor date bd, raises telling    *)
(* whether pd.to_datetime raised in _make_date_series.                     *)
(***************************************************************************)
PreprocessTable(table, cols, bd, raises) ==
    LET R == 1..Len(table)
        strs == [i \in R |->
                   [c \in TimeCols |->
                      IF c \in cols THEN hhmm_to_hhmmstr(table[i][c])
                      ELSE None]]
        dates == [i \in R |->
                    IF raises THEN Fallback(bd)
                    ELSE make_date_row(table[i], cols, bd)]
        combined == [i \in R |->
                       [c \in TimeCols |->
                          combine_date_and_time(dates[i], strs[i][c])]]
        dep == [i \in R |-> DepartureCorrectedRow(combined, table, cols, i)]
        arr == [i \in R |-> ArrivalCorrectedRow(dep, table, cols, i)]
        ord == [i \in R |-> ArrivalAfterDepartureRow(arr[i])]
        fill == /\ DateColumns \subseteq cols
                /\ ~NotnaAny(ord, "scheduled_departure")
        out == [i \in R |->
                  IF fill
                  THEN [ord[i] EXCEPT
                          !.scheduled_departure = CanonicalDeparture(table[i])]
                  ELSE ord[i]]
    IN  [i \in R |->
           [df |-> out[i],
            derived |-> DerivedRow(ord[i], table[i], cols),
            calendar |-> CalendarRow(out[i].scheduled_departure, table[i],
                                     cols)]]

\* the records preprocess can return for the one-row table of the record r
SingleRowOutputs(r, cols, bd) ==
    LET missing == /\ DateColumns \subseteq cols
                   /\ IsNull(r.year) \/ IsNull(r.month) \/ IsNull(r.day)
    IN  {PreprocessTable(<<r>>, cols, bd, raises)[1] :
           raises \in (IF missing THEN BOOLEAN ELSE {FALSE})}

\* the record of row i in the table preprocess returns
OutputRecord(i) ==
    [df |-> df[i], derived |-> derived[i], calendar |-> calendar[i]]

\* the returned table is PreprocessTable of the input
ReturnsPreprocessTable ==
    Done =>
        \E raises \in AssembleRaises :
            \A i \in Rows :
                OutputRecord(i) =
                    PreprocessTable(rows, columns, base_date, raises)[i]

(***************************************************************************)
(* C14: every record of the table preprocess returns is a record           *)
(* preprocess returns for the one-row table of that row alone, with the    *)
(* same columns and anchor date.                                           *)
(***************************************************************************)
C14_RowsIndependent ==
    Done =>
        \A i \in Rows :
            OutputRecord(i) \in SingleRowOutputs(rows[i], columns, base_date)

(***************************************************************************)
(* C15: the days the arrival-side pass adds to a record's arrival_time are *)
(* those the masks give for the record's raw arrival discrepancy (raw      *)
(* arrival_time - raw scheduled_arrival - arrival_delay) and its           *)
(* arrival_delay, whatever the departure-side pass did to the record.      *)
(***************************************************************************)
\* the arrival discrepancy of row i before any correction
RawArrDiff(i) ==
    Discrepancy(Raw(i, "arrival_time"), Raw(i, "scheduled_arrival"),
                rows[i].arrival_delay)

C15_ArrivalShiftFromRawArrival ==
    [][pc = "dep_corrected" =>
           \A i \in Rows :
               df'[i].arrival_time =
                   AddDays(df[i].arrival_time,
                           ShiftDays(RawArrDiff(i), rows[i].arrival_delay))]_vars

\* the departure-side pass has taken a day from a record and the
\* arrival-side pass a further day from its arrival_time
C15_Witness ==
    /\ pc = "arr_corrected"
    /\ \E i \in Rows :
           /\ NotNull(df[i].departure_time)
           /\ NotNull(df[i].arrival_time)
           /\ df[i].departure_time = AddDays(Raw(i, "departure_time"), 0 - 1)
           /\ df[i].scheduled_arrival =
                  AddDays(Raw(i, "scheduled_arrival"), 0 - 1)
           /\ df[i].arrival_time = AddDays(Raw(i, "arrival_time"), 0 - 2)

(***************************************************************************)
(* AirportAnalyzer (src/modules/airport_analyzer.py).                      *)
(*                                                                         *)
(* df_flights is a sequence of flights, df_airports a record of the        *)
(* table's columns and its rows.  A mean is a fraction [num, den] with     *)
(* den > 0, or null when no value went into it.  Where pandas leaves the   *)
(* order of equal keys to the sort algorithm, the model takes every order. *)
(***************************************************************************)
RECURSIVE SumOf(_)
\* the sum of the cells of a column that hold a value
SumOf(cells) ==
    IF cells = <<>> THEN 0
    ELSE (IF IsNull(Head(cells)) THEN 0 ELSE Val(Head(cells)))
         + SumOf(Tail(cells))

\* Series.mean(): the NaN cells are skipped
Mean(cells) ==
    LET present == SelectSeq(cells, NotNull)
    IN  IF present = <<>> THEN None
        ELSE Some([num |-> SumOf(present), den |-> Len(present)])

\* a count as a fraction
Whole(n) == [num |-> n, den |-> 1]

\* a >= b for two sort keys, NaN after every value (na_position='last')
KeyGeq(a, b) ==
    \/ IsNull(b)
    \/ NotNull(a) /\ Val(a).num * Val(b).den >= Val(b).num * Val(a).den

\* the columns that hold a count of flights
CountColumns == {"num_flights", "total_flights", "departures", "arrivals"}

\* the value of column key of the row r as a sort key
KeyOf(r, key) ==
    IF key \in CountColumns
    THEN IF IsNull(r[key]) THEN None ELSE Some(Whole(Val(r[key])))
    ELSE r[key]

\* the orders sort_values(key, ascending=False) can leave the rows S in
SortedDescending(S, key) ==
    {s \in [1..Cardinality(S) -> S] :
        /\ \A i, j \in DOMAIN s : i # j => s[i] # s[j]
        /\ \A i, j \in DOMAIN s :
               i < j => KeyGeq(KeyOf(s[i], key), KeyOf(s[j], key))}

\* DataFrame.head(n) for n >= 0
HeadRows(s, n) == SubSeq(s, 1, IF n < Len(s) THEN n ELSE Len(s))

\* the cells of column c of the flights whose column by is in the set codes
\* and whose column and is in the set others
FlightCells(by, codes, and, others, c) ==
    LET Keep(f) == f[by] \in codes /\ f[and] \in others
        kept == SelectSeq(df_flights, Keep)
    IN  [k \in 1..Len(kept) |-> kept[k][c]]

\* the airport codes of the flights
FlightCodes ==
    {df_flights[k].origin_airport : k \in DOMAIN df_flights}
        \cup {df_flights[k].destination_airport : k \in DOMAIN df_flights}

\* value_counts(['origin_airport', 'destination_airport']): the routes
RoutePairs ==
    {<<df_flights[k].origin_airport, df_flights[k].destination_airport>> :
       k \in DOMAIN df_flights}

NumFlights(o, d) ==
    Len(FlightCells("origin_airport", {o}, "destination_airport", {d},
                    "departure_delay"))

\* the latitude / longitude a left merge on iata_code attaches to a code
Coordinate(code, c) ==
    IF \E k \in DOMAIN df_airports.rows : df_airports.rows[k].iata_code = code
    THEN (CHOOSE a \in {df_airports.rows[k] : k \in DOMAIN df_airports.rows} :
              a.iata_code = code)[c]
    ELSE None

\* lines 31-50: the rows of df_counts with their coordinates
TopRouteRows ==
    {[origin_airport |-> p[1], destination_airport |-> p[2],
      num_flights |-> Some(NumFlights(p[1], p[2])),
      origin_lat |-> Coordinate(p[1], "latitude"),
      origin_lon |-> Coordinate(p[1], "longitude"),
      dest_lat |-> Coordinate(p[2], "latitude"),
      dest_lon |-> Coordinate(p[2], "longitude")] : p \in RoutePairs}

\* the tables compute_top_routes(top_n) can build, lines 31-50
TopRoutes(top_n) ==
    {HeadRows(s, top_n) : s \in SortedDescending(TopRouteRows, "num_flights")}

\* lines 243-295: the rows of df_routes before the sort
RouteMetricRows ==
    {LET RouteCells(c) ==
             FlightCells("origin_airport", {p[1]}, "destination_airport",
                         {p[2]}, c)
     IN  [origin_airport |-> p[1], destination_airport |-> p[2],
          total_flights |-> Some(NumFlights(p[1], p[2])),
          avg_departure_delay |-> Mean(RouteCells("departure_delay")),
          avg_arrival_delay |-> Mean(RouteCells("arrival_delay")),
          origin_lat |-> Coordinate(p[1], "latitude"),
          origin_lon |-> Coordinate(p[1], "longitude"),
          dest_lat |-> Coordinate(p[2], "latitude"),
          dest_lon |-> Coordinate(p[2], "longitude")] : p \in RoutePairs}

\* the tables compute_route_metrics(top_n) can build, lines 243-304;
\* top_n is None or a number
RouteMetrics(top_n) ==
    {IF IsNull(top_n) THEN s ELSE HeadRows(s, Val(top_n)) :
       s \in SortedDescending(RouteMetricRows, "total_flights")}

\* the columns compute_airport_metrics adds to those of df_airports
MetricColumns ==
    {"departures", "arrivals", "total_flights", "avg_arrival_delay",
     "avg_departure_delay"}

\* lines 197-222: the rows of df_metrics before the sort, one per airport
AirportMetricRows ==
    {LET a == df_airports.rows[k]
         From(c) ==
             FlightCells("origin_airport", {a.iata_code},
                         "destination_airport", FlightCodes, c)
         To(c) ==
             FlightCells("destination_airport", {a.iata_code},
                         "origin_airport", FlightCodes, c)
         departures == Len(From("departure_delay"))
         arrivals == Len(To("arrival_delay"))
         traffic == departures + arrivals > 0
     IN  [iata_code |-> a.iata_code, latitude |-> a.latitude,
          longitude |-> a.longitude,
          departures |-> IF traffic THEN Some(departures) ELSE None,
          arrivals |-> IF traffic THEN Some(arrivals) ELSE None,
          total_flights |->
              IF traffic THEN Some(departures + arrivals) ELSE None,
          avg_arrival_delay |-> Mean(To("arrival_delay")),
          avg_departure_delay |-> Mean(From("departure_delay"))] :
       k \in DOMAIN df_airports.rows}

\* the tables compute_airport_metrics can build, lines 197-224
AirportMetrics ==
    {[columns |-> df_airports.columns \cup MetricColumns, rows |-> s] :
       s \in SortedDescending(AirportMetricRows, "total_flights")}

\* the message of line 366 without the metric
InvalidMetricMessageAnonymous(metric, cols) ==
    [text |-> <<"Invalid metric. Available: ">>, names |-> cols]

\* f"Invalid metric '{metric}'. Available: {list(self.df_metrics.columns)}":
\* the pieces of the text in order, and the column names listed after them
InvalidMetricMessage(metric, cols) ==
    [text |-> <<"Invalid metric '", metric, "'. Available: ">>,
     names |-> cols]

\* the message of the KeyError of a selection of absent columns
NotInIndexMessage(cols) == [text |-> <<" not in index">>, names |-> cols]

\* what a call hands back: a value, or an exception with its message
Returns(op, value) ==
    [op |-> op, kind |-> "return", exc |-> None, message |-> None,
     metric |-> None, value |-> value]

Raises(op, metric, exc, message) ==
    [op |-> op, kind |-> "raise", exc |-> Some(exc),
     message |-> Some(message),
     metric |-> Some(metric), value |-> None]

\* the columns get_top_airports selects at line 369 besides the metric
TopAirportColumns == {"iata_code", "airport", "city", "state"}

\* AirportAnalyzer(df_flights, df_airports), lines 14-21
InitAnalyzer(flights, airports) ==
    /\ df_flights = flights
    /\ df_airports = airports
    /\ df_metrics = None
    /\ df_routes = None
    /\ df_route_metrics = None
    /\ plotted = None
    /\ returned = None

\* compute_top_routes(top_n), lines 26-53
ComputeTopRoutes(top_n) ==
    /\ \E table \in TopRoutes(top_n) :
           /\ df_routes' = Some(table)
           /\ returned' = Some(Returns("compute_top_routes", Some(table)))
    /\ plotted' = None
    /\ UNCHANGED <<df_flights, df_airports, df_metrics, df_route_metrics>>
    /\ UNCHANGED <<preprocessor_vars, encoder_vars, engineer_vars>>

\* plot_top_routes(top_n), lines 58-98
PlotTopRoutes(top_n) ==
    /\ \E table \in (IF IsNull(df_routes) THEN TopRoutes(top_n)
                     ELSE {Val(df_routes)}) :
           /\ df_routes' = Some(table)
           /\ plotted' = Some([op |-> "plot_top_routes", top_n |-> top_n,
                               routes |-> table])
    /\ returned' = Some(Returns("plot_top_routes", None))
    /\ UNCHANGED <<df_flights, df_airports, df_metrics, df_route_metrics>>
    /\ UNCHANGED <<preprocessor_vars, encoder_vars, engineer_vars>>

\* compute_airport_metrics(), lines 191-226
ComputeAirportMetrics ==
    /\ \E table \in AirportMetrics :
           /\ df_metrics' = Some(table)
           /\ returned' = Some(Returns("compute_airport_metrics", Some(table)))
    /\ plotted' = None
    /\ UNCHANGED <<df_flights, df_airports, df_routes, df_route_metrics>>
    /\ UNCHANGED <<preprocessor_vars, encoder_vars, engineer_vars>>

\* compute_route_metrics(top_n), lines 231-307
ComputeRouteMetrics(top_n) ==
    /\ \E table \in RouteMetrics(top_n) :
           /\ df_route_metrics' = Some(table)
           /\ returned' = Some(Returns("compute_route_metrics", Some(table)))
    /\ plotted' = None
    /\ UNCHANGED <<df_flights, df_airports, df_metrics, df_routes>>
    /\ UNCHANGED <<preprocessor_vars, encoder_vars, engineer_vars>>

HasCoordinates(r) ==
    /\ NotNull(r.origin_lat) /\ NotNull(r.origin_lon)
    /\ NotNull(r.dest_lat) /\ NotNull(r.dest_lon)

\* merged.nlargest(top_n, 'avg_departure_delay') of line 119
WorstRoutes(table, top_n) ==
    LET merged == {table[k] : k \in {j \in DOMAIN table :
                                       HasCoordinates(table[j])}}
    IN  {HeadRows(s, top_n) :
           s \in SortedDescending(merged, "avg_departure_delay")}

\* plot_extreme_route_delays(top_n), lines 100-184
PlotExtremeRouteDelays(top_n) ==
    /\ \E table \in (IF IsNull(df_route_metrics) THEN RouteMetrics(None)
                     ELSE {Val(df_route_metrics)}) :
           /\ df_route_metrics' = Some(table)
           /\ \E worst \in WorstRoutes(table, top_n) :
                  plotted' = Some([op |-> "plot_extreme_route_delays",
                                   top_n |-> top_n, routes |-> worst])
    /\ \E metrics \in (IF IsNull(df_metrics) THEN AirportMetrics
                       ELSE {Val(df_metrics)}) :
           df_metrics' = Some(metrics)
    /\ returned' = Some(Returns("plot_extreme_route_delays", None))
    /\ UNCHANGED <<df_flights, df_airports, df_routes>>
    /\ UNCHANGED <<preprocessor_vars, encoder_vars, engineer_vars>>

\* get_top_airports(metric, top_n), lines 356-369
GetTopAirports(metric, top_n) ==
    /\ \E metrics \in (IF IsNull(df_metrics) THEN AirportMetrics
                       ELSE {Val(df_metrics)}) :
           /\ df_metrics' = Some(metrics)
           /\ IF metric \notin metrics.columns
              THEN returned' =
                       Some(Raises("get_top_airports", metric, "ValueError",
                                   InvalidMetricMessage(metric,
                                                        metrics.columns)))
              ELSE IF ~(TopAirportColumns \subseteq metrics.columns)
              THEN returned' =
                       Some(Raises("get_top_airports", metric, "KeyError",
                                   NotInIndexMessage(TopAirportColumns
                                                         \ metrics.columns)))
              ELSE LET given == {metrics.rows[k] : k \in DOMAIN metrics.rows}
                   IN  \E s \in SortedDescending(given, metric) :
                           returned' =
                               Some([Returns("get_top_airports",
                                             Some([k \in DOMAIN HeadRows(s, top_n) |->
                                                     <<s[k].iata_code, s[k][metric]>>]))
                                     EXCEPT !.metric = Some(metric)])
    /\ plotted' = None
    /\ UNCHANGED <<df_flights, df_airports, df_routes, df_route_metrics>>
    /\ UNCHANGED <<preprocessor_vars, encoder_vars, engineer_vars>>

(***************************************************************************)
(* The analyzers the specification runs: up to MaxFlights flights between  *)
(* three airports, one of them without coordinates, and any sequence of    *)
(* calls with top_n 1 or 2.                                               *)
(***************************************************************************)
MaxFlights == 3

TopNs == {1, 2}

Flight(o, d, dep, arr) ==
    [origin_airport |-> o, destination_airport |-> d,
     departure_delay |-> dep, arrival_delay |-> arr]

FlightKinds ==
    <<Flight("ATL", "BOS", Some(20), Some(10)),
      Flight("ATL", "BOS", None, None),
      Flight("BOS", "ATL", Some(60), Some(0 - 5)),
      Flight("ATL", "CLT", Some(90), Some(45))>>

\* the tables of up to MaxFlights flights, each kind's flights together
FlightTables ==
    UNION {{[i \in 1..k |-> FlightKinds[s[i]]] :
              s \in {t \in [1..k -> DOMAIN FlightKinds] :
                        \A i \in 1..(k - 1) : t[i] <= t[i + 1]}} :
             k \in 1..MaxFlights}

Airport(code, lat, lon) ==
    [iata_code |-> code, latitude |-> lat, longitude |-> lon]

AirportRows ==
    <<Airport("ATL", Some(33), Some(0 - 84)),
      Airport("BOS", Some(42), Some(0 - 71)),
      Airport("CLT", None, None)>>

AirportColumns ==
    {"iata_code", "airport", "city", "state", "country", "latitude",
     "longitude"}

\* the three airports, or the first two in a table without a state column
AirportTables ==
    {[columns |-> AirportColumns, rows |-> AirportRows],
     [columns |-> AirportColumns \ {"state"},
      rows |-> SubSeq(AirportRows, 1, 2)]}

\* two of the documented metrics, a column of the flights table, a
\* misspelling
MetricNames ==
    {"total_flights", "avg_departure_delay", "departure_delay",
     "Total_Flights"}

\* no preprocess call is under way
NoPreprocessor ==
    /\ base_date = <<>>
    /\ columns = {}
    /\ rows = <<>>
    /\ hhmmstr = <<>>
    /\ date_series = <<>>
    /\ df = <<>>
    /\ derived = <<>>
    /\ calendar = <<>>
    /\ date_summary = <<>>
    /\ pc = "idle"

InitAirports ==
    /\ NoPreprocessor
    /\ NoEncoder
    /\ NoEngineer
    /\ \E flights \in FlightTables, airports \in AirportTables :
           InitAnalyzer(flights, airports)

NextAirports ==
    \/ \E top_n \in TopNs : ComputeTopRoutes(top_n)
    \/ \E top_n \in TopNs : PlotTopRoutes(top_n)
    \/ ComputeAirportMetrics
    \/ \E top_n \in {None} \cup {Some(n) : n \in TopNs} :
           ComputeRouteMetrics(top_n)
    \/ \E top_n \in TopNs : PlotExtremeRouteDelays(top_n)
    \/ \E metric \in MetricNames, top_n \in TopNs :
           GetTopAirports(metric, top_n)

SpecAirports == InitAirports /\ [][NextAirports]_vars

(***************************************************************************)
(* C16: a get_top_airports(metric) call whose metric is not a column of    *)
(* the airport metrics table raises a ValueError, the text of its message  *)
(* holds the metric as asked for, and the call returns no value.           *)
(***************************************************************************)
\* the last call was get_top_airports with a metric that is no column
AskedUnknownMetric ==
    /\ NotNull(returned)
    /\ Val(returned).op = "get_top_airports"
    /\ Val(Val(returned).metric) \notin Val(df_metrics).columns

C16_UnknownMetricRaisesValueError ==
    AskedUnknownMetric =>
        LET call == Val(returned)
        IN  /\ call.kind = "raise"
            /\ call.exc = Some("ValueError")
            /\ \E k \in DOMAIN Val(call.message).text :
                   Val(call.message).text[k] = Val(call.metric)
            /\ IsNull(call.value)

\* get_top_airports('departure_delay') has raised on an analyzer that has
\* computed no routes
C16_Witness ==
    /\ AskedUnknownMetric
    /\ Val(returned).metric = Some("departure_delay")
    /\ Val(returned).kind = "raise"
    /\ IsNull(df_routes)
    /\ IsNull(df_route_metrics)

(***************************************************************************)
(* C17: the routes a plot_top_routes(top_n) call draws are min(top_n,      *)
(* number of routes) routes of df_flights such that no route left out has  *)
(* more flights than a route drawn.                                        *)
(***************************************************************************)
\* the routes of the table the last plot call drew
DrawnRoutes ==
    {<<Val(plotted).routes[k].origin_airport,
       Val(plotted).routes[k].destination_airport>> :
       k \in DOMAIN Val(plotted).routes}

Least(a, b) == IF a < b THEN a ELSE b

C17_PlotsTopNBusiestRoutes ==
    NotNull(plotted) /\ Val(plotted).op = "plot_top_routes" =>
        /\ DrawnRoutes \subseteq RoutePairs
        /\ Cardinality(DrawnRoutes) =
               Least(Val(plotted).top_n, Cardinality(RoutePairs))
        /\ Len(Val(plotted).routes) = Cardinality(DrawnRoutes)
        /\ \A p \in DrawnRoutes, q \in RoutePairs \ DrawnRoutes :
               NumFlights(p[1], p[2]) >= NumFlights(q[1], q[2])

(***************************************************************************)
(* C18: the routes a plot_extreme_route_delays(top_n) call draws are       *)
(* min(top_n, number of routes with coordinates) routes of df_flights      *)
(* with coordinates such that no route with coordinates left out has a     *)
(* larger average departure delay than a route drawn.                      *)
(***************************************************************************)
\* the routes of df_flights whose two airports have coordinates
RoutesWithCoordinates ==
    {<<r.origin_airport, r.destination_airport>> :
       r \in {m \in RouteMetricRows : HasCoordinates(m)}}

\* the average departure delay of a route of df_flights
AvgDepartureDelay(p) ==
    (CHOOSE r \in RouteMetricRows :
         r.origin_airport = p[1] /\ r.destination_airport = p[2]).avg_departure_delay

C18_PlotsWorstDelayedRoutes ==
    NotNull(plotted) /\ Val(plotted).op = "plot_extreme_route_delays" =>
        /\ DrawnRoutes \subseteq RoutesWithCoordinates
        /\ Cardinality(DrawnRoutes) =
               Least(Val(plotted).top_n, Cardinality(RoutesWithCoordinates))
        /\ Len(Val(plotted).routes) = Cardinality(DrawnRoutes)
        /\ \A p \in DrawnRoutes, q \in RoutesWithCoordinates \ DrawnRoutes :
               KeyGeq(AvgDepartureDelay(p), AvgDepartureDelay(q))

(***************************************************************************)
(* SmoothedTargetEncoder (src/modules/smoothed_target_encoder.py).         *)
(*                                                                         *)
(* The table is a sequence of rows [category, target].  A mean or an       *)
(* encoding is a fraction [num, den] with den > 0.  folds gives for each   *)
(* row the fold of KFold(n_splits, shuffle=True, random_state) it is       *)
(* validated in: the permutation the seed draws depends on the number of   *)
(* rows only, and the model takes every one.                               *)
(***************************************************************************)
\* sum of the targets of the rows J of the table
TargetSum(table, J) ==
    SumOf([j \in DOMAIN table |->
             IF j \in J THEN Some(table[j].target) ELSE None])

\* the rows J that have the category c
OfCategory(table, J, c) == {j \in J : table[j].category = c}

\* df[self.target_feature].mean(), lines 23 and 41
GlobalMean(table) ==
    [num |-> TargetSum(table, DOMAIN table), den |-> Len(table)]

\* (count * mean + m * global_mean) / (count + m) of lines 26-29 and 52-55
\* for the category c over the rows J: count * mean is the sum of their
\* targets, and global_mean the fraction gm
Smoothed(table, J, c, smoothing, gm) ==
    LET rows_c == OfCategory(table, J, c)
    IN  [num |-> gm.den * TargetSum(table, rows_c) + smoothing * gm.num,
         den |-> gm.den * (Cardinality(rows_c) + smoothing)]

\* the sizes of the folds KFold makes of n rows: the first n % k folds
\* have one row more
FoldSize(n, k, j) == (n \div k) + (IF j <= n % k THEN 1 ELSE 0)

\* the ways kf.split can deal n rows into k validation folds
FoldAssignments(n, k) ==
    {f \in [1..n -> 1..k] :
        \A j \in 1..k : Cardinality({i \in 1..n : f[i] = j}) = FoldSize(n, k, j)}

\* lines 41-60: the out-of-fold encoding of every row; a category the
\* training folds do not hold maps to NaN and is filled with global_mean_
OutOfFold(table, f, smoothing) ==
    LET gm == GlobalMean(table)
    IN  [i \in DOMAIN table |->
           LET training == {j \in DOMAIN table : f[j] # f[i]}
               c == table[i].category
           IN  IF OfCategory(table, training, c) = {} THEN gm
               ELSE Smoothed(table, training, c, smoothing, gm)]

\* lines 25-29: the mapping fit learns from the whole table
CategoryMapping(table, smoothing) ==
    [c \in {table[j].category : j \in DOMAIN table} |->
       Smoothed(table, DOMAIN table, c, smoothing, GlobalMean(table))]

\* SmoothedTargetEncoder(..., m, n_splits), lines 10-19, and the table
InitEncoder(smoothing, k, table, f) ==
    /\ m_smoothing = smoothing
    /\ n_splits = k
    /\ train = table
    /\ folds = f
    /\ global_mean_ = None
    /\ category_mapping_ = None
    /\ encoded_feature = None

\* fit(df), lines 21-31
Fit ==
    /\ global_mean_' = Some(GlobalMean(train))
    /\ category_mapping_' = Some(CategoryMapping(train, m_smoothing))
    /\ UNCHANGED <<m_smoothing, n_splits, train, folds, encoded_feature>>
    /\ UNCHANGED <<preprocessor_vars, analyzer_vars, engineer_vars>>

\* fit_transform(df), lines 39-65; kf.split raises a ValueError when the
\* table has fewer rows than n_splits, after line 41 has set global_mean_
FitTransform ==
    /\ IF Len(train) < n_splits
       THEN /\ global_mean_' = Some(GlobalMean(train))
            /\ UNCHANGED <<category_mapping_, encoded_feature>>
       ELSE /\ encoded_feature' = Some(OutOfFold(train, folds, m_smoothing))
            /\ global_mean_' = Some(GlobalMean(train))
            /\ category_mapping_' = Some(CategoryMapping(train, m_smoothing))
    /\ UNCHANGED <<m_smoothing, n_splits, train, folds>>
    /\ UNCHANGED <<preprocessor_vars, analyzer_vars, engineer_vars>>

(***************************************************************************)
(* The encoders the specification runs: tables of one to MaxTrainRows      *)
(* rows over two categories and the targets 0 and 1, two or three folds,   *)
(* m = 10 (the default) or 1.                                              *)
(***************************************************************************)
MaxTrainRows == 3

Categories == {"AA", "DL"}

Targets == {0, 1}

TrainTables ==
    UNION {[1..n -> [category : Categories, target : Targets]] :
             n \in 1..MaxTrainRows}

InitEncoders ==
    /\ NoPreprocessor
    /\ NoAnalyzer
    /\ NoEngineer
    /\ \E smoothing \in {1, 10}, k \in {2, 3}, table \in TrainTables :
           \E f \in (IF Len(table) < k THEN {<<>>}
                     ELSE FoldAssignments(Len(table), k)) :
               InitEncoder(smoothing, k, table, f)

NextEncoders ==
    \/ Fit
    \/ FitTransform

SpecEncoders == InitEncoders /\ [][NextEncoders]_vars

(***************************************************************************)
(* C19: the encoding fit_transform gives a row is the one it gives the row *)
(* in the table that differs in that row's target only, under the same     *)
(* folds.                                                                  *)
(***************************************************************************)
SameFraction(a, b) == a.num * b.den = b.num * a.den

C19_EncodingIgnoresOwnTarget ==
    NotNull(encoded_feature) =>
        \A i \in DOMAIN train :
            \A t \in Targets :
                SameFraction(Val(encoded_feature)[i],
                             OutOfFold([train EXCEPT ![i].target = t], folds,
                                       m_smoothing)[i])

(***************************************************************************)
(* FlightFeatureEngineer.transform (src/modules/feature_engineer.py).      *)
(*                                                                         *)
(* The table is a sequence of rows [scheduled_departure,                   *)
(* scheduled_arrival, day_of_week]; a timestamp is a nullable number of    *)
(* minutes since 1970-01-01T00:00, as in preprocess.                       *)
(***************************************************************************)
\* self.peak_hours and self.redeye_hours, lines 10-11
peak_hours == {6, 7, 8, 9, 17, 18, 19, 20}

redeye_hours == {0, 1, 2, 3, 4, 5}

\* Series.dt.hour of a timestamp
HourOf(t) == (Val(t) % 1440) \div 60

\* 1 or 0: Series.astype(int) of a boolean
AsInt(b) == IF b THEN 1 ELSE 0

\* dt.isocalendar().week: the week of the Thursday of the date's week
IsoWeek(z) ==
    LET thursday == z - DayOfWeek(z) + 3
        year == CivilFromDays(thursday).y
    IN  (thursday - DaysFromCivil(year, 1, 1)) \div 7 + 1

\* duration.where(duration > 0, duration + 1440), line 68: NaN > 0 is
\* False and NaN + 1440 is NaN
WrapDuration(duration) ==
    IF IsNull(duration) THEN None
    ELSE IF Val(duration) > 0 THEN duration
    ELSE Some(Val(duration) + 1440)

\* lines 43-74 on one row with a scheduled departure
FeatureRow(r) ==
    LET sd == r.scheduled_departure
        duration == WrapDuration(DelayMinutes(r.scheduled_arrival, sd))
    IN  [is_peak_hour |-> AsInt(HourOf(sd) \in peak_hours),
         is_redeye |-> AsInt(HourOf(sd) \in redeye_hours),
         is_weekend |-> AsInt(r.day_of_week >= 5),
         day_of_month |-> CivilFromDays(DayOf(sd)).d,
         week_of_year |-> IsoWeek(DayOf(sd)),
         scheduled_duration_min |-> duration,
         is_short_flight |-> AsInt(NotNull(duration) /\ Val(duration) < 120),
         is_long_flight |-> AsInt(NotNull(duration) /\ Val(duration) > 300)]

\* the table handed to transform
InitEngineer(table) ==
    /\ schedule = table
    /\ features = None

\* transform(df), lines 19-94; with a NaT scheduled_departure the week
\* of line 59 is <NA> and astype(int) raises
Transform ==
    /\ features' =
           IF \E i \in DOMAIN schedule : IsNull(schedule[i].scheduled_departure)
           THEN Some([kind |-> "raise", rows |-> <<>>])
           ELSE Some([kind |-> "return",
                      rows |-> [i \in DOMAIN schedule |->
                                  FeatureRow(schedule[i])]])
    /\ UNCHANGED schedule
    /\ UNCHANGED <<preprocessor_vars, analyzer_vars, encoder_vars>>

(***************************************************************************)
(* The tables the specification transforms: up to MaxScheduleRows flights  *)
(* leaving on Saturday 2024-03-09 at 06:30 or 23:50 and due that day,      *)
(* overnight, at the very minute they leave, or two days earlier.          *)
(***************************************************************************)
MaxScheduleRows == 2

ScheduledDepartures ==
    {None, At(2024, 3, 9, 6, 30), At(2024, 3, 9, 23, 50)}

ScheduledArrivals ==
    {None, At(2024, 3, 9, 6, 30), At(2024, 3, 9, 8, 0),
     At(2024, 3, 10, 0, 20), At(2024, 3, 7, 9, 0)}

ScheduleRows ==
    [scheduled_departure : ScheduledDepartures,
     scheduled_arrival : ScheduledArrivals, day_of_week : {2, 5}]

InitEngineers ==
    /\ NoPreprocessor
    /\ NoAnalyzer
    /\ NoEncoder
    /\ \E table \in UNION {[1..n -> ScheduleRows] : n \in 1..MaxScheduleRows} :
           InitEngineer(table)

NextEngineers == Transform

SpecEngineers == InitEngineers /\ [][NextEngineers]_vars

(***************************************************************************)
(* C20: in the table transform returns, scheduled_duration_min of every    *)
(* record with both scheduled timestamps is positive: the raw difference   *)
(* scheduled_arrival - scheduled_departure when that is positive, and the  *)
(* raw difference plus 1440 when it is negative.                           *)
(***************************************************************************)
Returned == NotNull(features) /\ Val(features).kind = "return"

RawDuration(i) ==
    Val(schedule[i].scheduled_arrival) - Val(schedule[i].scheduled_departure)

C20_DurationPositive ==
    Returned =>
        \A i \in DOMAIN schedule :
            NotNull(schedule[i].scheduled_arrival) =>
                LET out == Val(features).rows[i].scheduled_duration_min
                IN  /\ NotNull(out)
                    /\ Val(out) > 0
                    /\ RawDuration(i) > 0 => Val(out) = RawDuration(i)
                    /\ RawDuration(i) < 0 => Val(out) = RawDuration(i) + 1440

CanonicalFill ==
    /\ Done
    /\ DateColumns \subseteq columns
    /\ \A i \in Rows : IsNull(Raw(i, "scheduled_departure"))

==============================================================================
